---------------------------- MODULE Spec2Model ----------------------------
(***************************************************************************)
(* Model of scripts/add_license_header.py: the table LICENSE_MAP, the      *)
(* notice LICENSE_LINES, the function add_header and the loop of the       *)
(* __main__ block over sys.argv[1:].                                       *)
(*                                                                         *)
(* Text is a sequence of one-character strings, so that the suffix of a    *)
(* path, the newline translation of a text-mode open, readlines, the       *)
(* substring test and rstrip are computed character by character.          *)
(*                                                                         *)
(* Platform: POSIX.  A text-mode write translates "\n" to os.linesep,      *)
(* which is "\n" there (LineSep).  Paths are file names of the working     *)
(* directory: they hold no path separator, so that the final component of  *)
(* pathlib.Path(file_path) is the path itself.                             *)
(***************************************************************************)
EXTENDS Naturals, Sequences, FiniteSets, TLC

VARIABLES
    argv,       \* sys.argv[1:]: the sequence of paths given
    fs,         \* the file system: path -> [mode, content]
    fs0,        \* history: the file system the run started from
    pc,         \* index into argv of the next iteration of the for loop
    status,     \* "running" | "exited"
    exitCode,   \* <<>> while running, <<n>> once the process exited with n
    calls       \* history: one record per add_header invocation

vars == <<argv, fs, fs0, pc, status, exitCode, calls>>

-----------------------------------------------------------------------------
(* Bounds of the model.                                                    *)

\* Longest argument list of a run.
MaxArgs == 3
\* Most filler lines that precede the interesting tail of a file's content.
MaxFill == 16
\* Longest generated file name.
MaxNameLen == 4

-----------------------------------------------------------------------------
(* Characters and generic sequence helpers.                                *)

LF == "\n"
CR == "\r"

\* What str.rstrip() with no argument strips.
Whitespace == {" ", "\t", LF, CR, "\f"}

Min(a, b) == IF a <= b THEN a ELSE b

Range(s) == {s[i] : i \in 1..Len(s)}

\* Python's `sub in s` for strings.
Contains(s, sub) ==
    \E i \in 1..(Len(s) + 1) :
        /\ i + Len(sub) - 1 <= Len(s)
        /\ \A j \in 1..Len(sub) : s[i + j - 1] = sub[j]

\* "".join(seqs): what writelines puts in the stream.
\* (Joined by halves, which keeps the recursion shallow.)
RECURSIVE Join(_)
Join(seqs) ==
    IF Len(seqs) = 0 THEN <<>>
    ELSE IF Len(seqs) = 1 THEN seqs[1]
    ELSE LET h == Len(seqs) \div 2
         IN  Join(SubSeq(seqs, 1, h)) \o Join(SubSeq(seqs, h + 1, Len(seqs)))

-----------------------------------------------------------------------------
(* The module-level tables.                                                *)

\* dict.get's answer for a missing key.
None == <<>>

LICENSE_MAP ==
    (<<".", "s", "h">> :> <<"#">>) @@
    (<<".", "r", "s">> :> <<"/", "/">>) @@
    (<<".", "p", "y">> :> <<"#">>) @@
    (<<".", "g", "o">> :> <<"/", "/">>) @@
    (<<".", "j", "s">> :> <<"/", "/">>) @@
    (<<".", "j", "s", "x">> :> <<"/", "/">>) @@
    (<<".", "t", "s">> :> <<"/", "/">>) @@
    (<<".", "t", "s", "x">> :> <<"/", "/">>)

LICENSE_LINES ==
    <<
      <<"C","o","p","y","r","i","g","h","t"," ","2","0","2","5"," ","c","h","e","n","j","j","i",
        "a","a">>,
      <<>>,
      <<"L","i","c","e","n","s","e","d"," ","u","n","d","e","r"," ","t","h","e"," ","A","p","a",
        "c","h","e"," ","L","i","c","e","n","s","e",","," ","V","e","r","s","i","o","n"," ","2",
        ".","0"," ","(","t","h","e"," ","\"","L","i","c","e","n","s","e","\"",")",";">>,
      <<"y","o","u"," ","m","a","y"," ","n","o","t"," ","u","s","e"," ","t","h","i","s"," ","f",
        "i","l","e"," ","e","x","c","e","p","t"," ","i","n"," ","c","o","m","p","l","i","a","n",
        "c","e"," ","w","i","t","h"," ","t","h","e"," ","L","i","c","e","n","s","e",".">>,
      <<"Y","o","u"," ","m","a","y"," ","o","b","t","a","i","n"," ","a"," ","c","o","p","y"," ",
        "o","f"," ","t","h","e"," ","L","i","c","e","n","s","e"," ","a","t">>,
      <<>>,
      <<" "," "," "," ","h","t","t","p",":","/","/","w","w","w",".","a","p","a","c","h","e",".",
        "o","r","g","/","l","i","c","e","n","s","e","s","/","L","I","C","E","N","S","E","-","2",
        ".","0">>,
      <<>>,
      <<"U","n","l","e","s","s"," ","r","e","q","u","i","r","e","d"," ","b","y"," ","a","p","p",
        "l","i","c","a","b","l","e"," ","l","a","w"," ","o","r"," ","a","g","r","e","e","d"," ",
        "t","o"," ","i","n"," ","w","r","i","t","i","n","g",","," ","s","o","f","t","w","a","r",
        "e">>,
      <<"d","i","s","t","r","i","b","u","t","e","d"," ","u","n","d","e","r"," ","t","h","e"," ",
        "L","i","c","e","n","s","e"," ","i","s"," ","d","i","s","t","r","i","b","u","t","e","d",
        " ","o","n"," ","a","n"," ","\"","A","S"," ","I","S","\""," ","B","A","S","I","S",",">>,
      <<"W","I","T","H","O","U","T"," ","W","A","R","R","A","N","T","I","E","S"," ","O","R"," ",
        "C","O","N","D","I","T","I","O","N","S"," ","O","F"," ","A","N","Y"," ","K","I","N","D",
        ","," ","e","i","t","h","e","r"," ","e","x","p","r","e","s","s"," ","o","r"," ","i","m",
        "p","l","i","e","d",".">>,
      <<"S","e","e"," ","t","h","e"," ","L","i","c","e","n","s","e"," ","f","o","r"," ","t","h",
        "e"," ","s","p","e","c","i","f","i","c"," ","l","a","n","g","u","a","g","e"," ","g","o",
        "v","e","r","n","i","n","g"," ","p","e","r","m","i","s","s","i","o","n","s"," ","a","n",
        "d">>,
      <<"l","i","m","i","t","a","t","i","o","n","s"," ","u","n","d","e","r"," ","t","h","e"," ",
        "L","i","c","e","n","s","e",".">>
    >>

\* The literal of the `in` test of the already-licensed check.
Marker ==
    <<"L","i","c","e","n","s","e","d"," ","u","n","d","e","r"," ","t","h","e"," ","A","p","a",
      "c","h","e"," ","L","i","c","e","n","s","e">>

\* The slice bound of lines[:15].
CheckWindow == 15

-----------------------------------------------------------------------------
(* What the library calls of add_header do.                                *)

\* str.rfind(c): the last index of c in s, 0 when there is none (1-based).
RECURSIVE RFind(_, _)
RFind(s, c) ==
    IF s = <<>> THEN 0
    ELSE IF s[Len(s)] = c THEN Len(s)
    ELSE RFind(SubSeq(s, 1, Len(s) - 1), c)

\* The mutant of Suffix: str.find in place of str.rfind.
SuffixFromFirstDot(name) ==
    LET dots == {i \in 1..Len(name) : name[i] = "."}
        i == IF dots = {} THEN 0 ELSE CHOOSE d \in dots : \A e \in dots : d <= e
    IN  IF 1 < i /\ i < Len(name) THEN SubSeq(name, i, Len(name)) ELSE <<>>

\* pathlib.Path(file_path).suffix for a path that is a bare file name: the
\* name from its last dot on, unless that dot is the name's first or last
\* character (PurePath.suffix: i = name.rfind('.'); 0 < i < len(name) - 1).
Suffix(name) ==
    LET i == RFind(name, ".")
    IN  IF 1 < i /\ i < Len(name) THEN SubSeq(name, i, Len(name)) ELSE <<>>

\* The mutant of LicenseMapGet: LICENSE_MAP.get(ext, "#").
LicenseMapGetDefault(ext) ==
    IF ext \in DOMAIN LICENSE_MAP THEN LICENSE_MAP[ext] ELSE <<"#">>

\* LICENSE_MAP.get(ext)
LicenseMapGet(ext) ==
    IF ext \in DOMAIN LICENSE_MAP THEN LICENSE_MAP[ext] ELSE None

\* Reading through open(file_path, 'r') (newline=None): universal newlines.
\* "\r\n" and a lone "\r" both arrive as "\n".
ReadText(bytes) ==
    LET n == Len(bytes)
        keep == SelectSeq([i \in 1..n |-> i],
                          LAMBDA i : ~(bytes[i] = CR /\ i < n /\ bytes[i + 1] = LF))
    IN  [k \in 1..Len(keep) |-> IF bytes[keep[k]] = CR THEN LF ELSE bytes[keep[k]]]

\* Splitting a decoded text into lines, each keeping its "\n"; a last line
\* without one is kept as it is.
SplitLines(text) ==
    LET n == Len(text)
        ends == SelectSeq([i \in 1..n |-> i], LAMBDA i : text[i] = LF \/ i = n)
    IN  [k \in 1..Len(ends) |->
            SubSeq(text, IF k = 1 THEN 1 ELSE ends[k - 1] + 1, ends[k])]

\* f.readlines() on the file opened for reading.
ReadLines(bytes) == SplitLines(ReadText(bytes))

\* os.linesep of the platform.
LineSep == <<LF>>

\* Writing through open(file_path, 'w') (newline=None): each "\n" of the
\* text leaves as os.linesep.
WriteText(text) ==
    LET lines == SplitLines(text)
    IN  Join([k \in 1..Len(lines) |->
                IF lines[k][Len(lines[k])] = LF
                THEN SubSeq(lines[k], 1, Len(lines[k]) - 1) \o LineSep
                ELSE lines[k]])

\* str.rstrip()
RECURSIVE RStrip(_)
RStrip(s) ==
    IF s # <<>> /\ s[Len(s)] \in Whitespace THEN RStrip(SubSeq(s, 1, Len(s) - 1)) ELSE s

\* The mutant of CommentedLine: the space after the comment marker left out.
CommentedLineNoSpace(comment, line) ==
    IF line # <<>> THEN RStrip(comment \o line) \o <<LF>> ELSE comment \o <<LF>>

\* One element of commented_header:
\* f"{comment} {line}".rstrip() + '\n' if line else f"{comment}\n"
CommentedLine(comment, line) ==
    IF line # <<>> THEN RStrip(comment \o <<" ">> \o line) \o <<LF>>
    ELSE comment \o <<LF>>

\* commented_header
CommentedHeader(comment) ==
    [i \in 1..Len(LICENSE_LINES) |-> CommentedLine(comment, LICENSE_LINES[i])]

\* A mutant of AlreadyLicensed: the test made on lines[:16].
AlreadyLicensedWideWindow(lines) ==
    \E k \in 1..Min(CheckWindow + 1, Len(lines)) : Contains(lines[k], Marker)

\* A mutant of AlreadyLicensed: the test made on lines[:2].
AlreadyLicensedShortWindow(lines) ==
    \E k \in 1..Min(2, Len(lines)) : Contains(lines[k], Marker)

\* any("Licensed under the Apache License" in line for line in lines[:15])
AlreadyLicensed(lines) ==
    \E k \in 1..Min(CheckWindow, Len(lines)) : Contains(lines[k], Marker)

-----------------------------------------------------------------------------
(* The file system and add_header.                                         *)

\* A file is [mode, content].  The modes are what the two opens can meet:
\*   "ok"       open(.., 'r') and open(.., 'w') succeed and the write lands;
\*   "missing"  no such file: open(.., 'r') raises FileNotFoundError;
\*   "noread"   open(.., 'r') raises PermissionError;
\*   "nowrite"  open(.., 'w') raises PermissionError, the file is untouched;
\*   "wfail"    open(.., 'w') succeeds, which truncates the file, and the
\*              write of the buffered text raises OSError at the flush.
Modes == {"ok", "missing", "noread", "nowrite", "wfail"}

\* The mutant of CanOpenRead: a missing file opens as an empty one (as under
\* mode 'a+').
CanOpenReadMissingOk(f) == f.mode # "noread"

\* Whether open(file_path, 'r', encoding='utf-8') succeeds.
CanOpenRead(f) == f.mode \notin {"missing", "noread"}

\* Whether open(file_path, 'w', encoding='utf-8') succeeds.
CanOpenWrite(f) == f.mode # "nowrite"

\* Whether f.writelines(..) and the close that flushes it succeed.
CanWrite(f) == f.mode # "wfail"

\* The file system with path's content replaced.
WithContent(files, path, content) ==
    [files EXCEPT ![path] = [@ EXCEPT !.content = content]]

\* What one invocation did: the suffix looked up, the opens made (in order),
\* how it ended and the file system it left.
Outcome(ext, opened, result, files) ==
    [ext |-> ext, opened |-> opened, result |-> result, fs |-> files]

\* add_header(file_path) on the file system `files`.  result is
\*   "unsupported"  returned at `if not comment`;
\*   "licensed"     returned at the already-licensed check;
\*   "written"      returned after the write;
\*   "raised"       an exception left the function.
add_header(files, file_path) ==
    LET ext == Suffix(file_path)
        comment == LicenseMapGet(ext)
        f == files[file_path]
    IN  IF comment = None \/ comment = <<>>
        THEN Outcome(ext, <<>>, "unsupported", files)
        ELSE IF ~CanOpenRead(f)
        THEN Outcome(ext, <<"r">>, "raised", files)
        ELSE LET lines == ReadLines(f.content) IN
        IF AlreadyLicensed(lines)
        THEN Outcome(ext, <<"r">>, "licensed", files)
        ELSE LET commented_header == CommentedHeader(comment) IN
        IF ~CanOpenWrite(f)
        THEN Outcome(ext, <<"r", "w">>, "raised", files)
        ELSE IF ~CanWrite(f)
        THEN Outcome(ext, <<"r", "w">>, "raised", WithContent(files, file_path, <<>>))
        ELSE Outcome(ext, <<"r", "w">>, "written",
                     WithContent(files, file_path,
                         WriteText(Join(commented_header \o <<<<LF>>>> \o lines))))

-----------------------------------------------------------------------------
(* The __main__ block: for file in sys.argv[1:]: add_header(file)          *)

\* The mutant of Raises: the call wrapped in a try/except that goes on.
RaisesSwallowed(out) == FALSE

\* Whether the invocation ended in an exception, which nothing catches.
Raises(out) == out.result = "raised"

\* The mutant of NextIndex: a skipped file ends the loop (break).
NextIndexBreakOnSkip(i, out) ==
    IF out.result \in {"unsupported", "licensed"} THEN Len(argv) + 1 ELSE i + 1

\* The for loop's step to the next argument.
NextIndex(i, out) == i + 1

\* The history record of the invocation on argv[pc].
CallRecord(out) ==
    [path   |-> argv[pc],
     index  |-> pc,
     ext    |-> out.ext,
     opened |-> out.opened,
     result |-> out.result,
     before |-> fs[argv[pc]].content,
     after  |-> out.fs[argv[pc]].content]

\* One iteration of the loop whose add_header call returns.
Iterate ==
    /\ status = "running"
    /\ pc <= Len(argv)
    /\ LET out == add_header(fs, argv[pc]) IN
        /\ ~Raises(out)
        /\ fs' = out.fs
        /\ calls' = Append(calls, CallRecord(out))
        /\ pc' = NextIndex(pc, out)
    /\ UNCHANGED <<argv, fs0, status, exitCode>>

\* One iteration whose add_header call raises: the exception reaches the
\* top level, the interpreter prints the traceback and exits with status 1.
Abort ==
    /\ status = "running"
    /\ pc <= Len(argv)
    /\ LET out == add_header(fs, argv[pc]) IN
        /\ Raises(out)
        /\ fs' = out.fs
        /\ calls' = Append(calls, CallRecord(out))
    /\ status' = "exited"
    /\ exitCode' = <<1>>
    /\ UNCHANGED <<argv, fs0, pc>>

\* The loop is exhausted: the script ends and the process exits with 0.
Exit ==
    /\ status = "running"
    /\ pc > Len(argv)
    /\ status' = "exited"
    /\ exitCode' = <<0>>
    /\ UNCHANGED <<argv, fs, fs0, pc, calls>>

Next == Iterate \/ Abort \/ Exit

-----------------------------------------------------------------------------
(* Initial states: the argument lists and the files a run may start from.  *)

\* k lines "x", each ended by the terminator term.
Fill(k, term) == Join([i \in 1..k |-> <<"x">> \o term])

Terminators == {<<LF>>, <<CR, LF>>, <<CR>>}

\* The marker without its last character.
NearMarker == SubSeq(Marker, 1, Len(Marker) - 1)

\* How a file's content may end after its filler lines: nothing, a last line
\* without a newline, the marker, and the marker cut short.
Tails == {<<>>, <<"y">>, <<"/", "/", " ">> \o Marker, NearMarker}

Contents == {Fill(k, term) \o tail : k \in 0..MaxFill, term \in Terminators, tail \in Tails}

File(mode, content) == [mode |-> mode, content |-> content]

\* All sequences over S of length 1..n.
SeqsUpTo(S, n) == UNION {[1..k -> S] : k \in 1..n}

\* The argument lists of at most MaxArgs paths among names.
ArgLists(names) == {<<>>} \cup SeqsUpTo(names, MaxArgs)

InitRest ==
    /\ fs0 = fs
    /\ pc = 1
    /\ status = "running"
    /\ exitCode = <<>>
    /\ calls = <<>>

\* Runs: every argument list over three files, each file unlicensed, licensed
\* on its first line, licensed on line 16 only, missing, unreadable or
\* unwritable.
RunNames == {<<"a", ".", "p", "y">>, <<"b", ".", "g", "o">>, <<"n", ".", "t", "x", "t">>}

RunFiles ==
    {File("ok", c) : c \in {<<"x", LF>>, Marker \o <<LF>>, Fill(CheckWindow, <<LF>>) \o Marker}}
    \cup {File("missing", <<>>)}
    \cup {File(m, <<"x", LF>>) : m \in {"noread", "nowrite", "wfail"}}

Init ==
    /\ argv \in ArgLists(RunNames)
    /\ fs \in [Range(argv) -> RunFiles]
    /\ InitRest

Spec == Init /\ [][Next]_vars

\* Two invocations in succession on one path: a file of every supported
\* extension and one unsupported, with every content of Contents.
TwiceNames ==
    {<<"a">> \o ext : ext \in DOMAIN LICENSE_MAP} \cup {<<"a", ".", "t", "x", "t">>}

TwiceFiles ==
    {File("ok", c) : c \in Contents}
    \cup {File("missing", <<>>)}
    \cup {File(m, c) : m \in {"noread", "nowrite", "wfail"},
                       c \in {<<"x", CR, LF>>, Marker \o <<LF>>}}

InitTwice ==
    /\ \E p \in TwiceNames : argv = <<p, p>>
    /\ fs \in [Range(argv) -> TwiceFiles]
    /\ InitRest

SpecTwice == InitTwice /\ [][Next]_vars

\* One invocation on every file name over NameAlphabet of length up to
\* MaxNameLen, and on some sample names, the file present or missing.
NameAlphabet == {".", "p", "y", "P"}

SampleNames ==
    { <<"a", ".", "t", "a", "r", ".", "g", "o">>,
      <<"n", "o", "t", "e", "s", ".", "t", "x", "t">>,
      <<".", "s", "h">>,
      <<"c", ".", "P", "Y">>,
      <<"a", ".", "t", "s", "x">>,
      <<"a", ".", "j", "s", ".">>,
      <<"M", "a", "k", "e", "f", "i", "l", "e">> }

FileNames == SeqsUpTo(NameAlphabet, MaxNameLen) \cup SampleNames

NameFiles == {File("ok", <<"x", LF>>), File("missing", <<>>)}

InitNames ==
    /\ \E name \in FileNames : argv = <<name>>
    /\ fs \in [Range(argv) -> NameFiles]
    /\ InitRest

SpecNames == InitNames /\ [][Next]_vars

-----------------------------------------------------------------------------
(* Vocabulary of the properties, stated on the bytes of the files and on   *)
(* the history, apart from the operators add_header is built from.         *)

Calls == 1..Len(calls)

\* The positions of the "\n" bytes of b, in order.
LFPositions(b) == SelectSeq([i \in 1..Len(b) |-> i], LAMBDA i : b[i] = LF)

\* What follows the k-th "\n" of b.
AfterLine(b, k) == SubSeq(b, LFPositions(b)[k] + 1, Len(b))

\* The marker starts at byte i of b.
MarkerAt(b, i) ==
    /\ i + Len(Marker) - 1 <= Len(b)
    /\ \A j \in 1..Len(Marker) : b[i + j - 1] = Marker[j]

\* The number of the line byte i of b is on, lines being ended by "\n",
\* "\r\n" or a lone "\r".
LineOf(b, i) ==
    1 + Cardinality({j \in 1..(i - 1) : b[j] = LF \/ (b[j] = CR /\ b[j + 1] # LF)})

\* The marker occurs on one of the first n lines of b.
MarkerWithin(b, n) == \E i \in 1..Len(b) : MarkerAt(b, i) /\ LineOf(b, i) <= n

\* How many times the marker occurs in b.
MarkerCount(b) == Cardinality({i \in 1..Len(b) : b[i] = Marker[1] /\ MarkerAt(b, i)})

\* The name from its final "." to its end; empty when it has no ".".
FinalDotExt(name) ==
    IF \E i \in 1..Len(name) : name[i] = "."
    THEN LET d == CHOOSE i \in 1..Len(name) :
                      name[i] = "." /\ \A j \in (i + 1)..Len(name) : name[j] # "."
         IN  SubSeq(name, d, Len(name))
    ELSE <<>>

\* FinalDotExt, but empty when the final "." is the name's first or last
\* character.
InnerDotExt(name) ==
    LET e == FinalDotExt(name)
    IN  IF Len(e) <= 1 \/ Len(e) = Len(name) THEN <<>> ELSE e

Supported == DOMAIN LICENSE_MAP

\* The invocation wrote, or tried to.
OpenedForWrite(c) == "w" \in Range(c.opened)

\* The invocation read the file: its open for reading succeeded.
DidRead(c) == c.opened # <<>> /\ ~(c.result = "raised" /\ c.opened = <<"r">>)

-----------------------------------------------------------------------------
(* Properties of add_header, checked under SpecTwice.                      *)

\* C1: two invocations in succession on one path leave the file as the
\* first left it: the second returns without opening the file for writing
\* (as unsupported or as already licensed) and the content is unchanged.
C1_Idempotent ==
    \A i \in Calls :
        (i + 1 \in Calls /\ calls[i + 1].path = calls[i].path) =>
            /\ calls[i + 1].result \in {"unsupported", "licensed"}
            /\ ~OpenedForWrite(calls[i + 1])
            /\ calls[i + 1].before = calls[i].after
            /\ calls[i + 1].after = calls[i].after
            /\ fs[calls[i].path].content = calls[i].after

\* C1's case: a file with CR LF line ends got its header at the first
\* invocation and the second found it licensed.
C1_Witness ==
    /\ Len(calls) = 2
    /\ calls[1].path = calls[2].path
    /\ calls[1].result = "written"
    /\ CR \in Range(calls[1].before)
    /\ calls[2].result = "licensed"

\* C2: whenever add_header writes a header, what follows the 13 header lines
\* and the blank line is byte for byte the content before the invocation.
C2_ContentPreserved ==
    \A i \in Calls :
        calls[i].result = "written" =>
            /\ Len(LFPositions(calls[i].after)) >= 14
            /\ AfterLine(calls[i].after, 14) = calls[i].before

\* C4: whenever add_header writes a header, the file begins with exactly 13
\* lines, line k being the extension's comment marker alone when notice line
\* k is empty and otherwise the marker, a space and notice line k, each ended
\* by one "\n" with no whitespace before it, and line 14 is empty.
C4_HeaderShape ==
    \A i \in Calls :
        calls[i].result = "written" =>
            LET b == calls[i].after
                marker == LICENSE_MAP[calls[i].ext]
                at == LFPositions(b)
                line == [k \in 1..14 |-> SubSeq(b, IF k = 1 THEN 1 ELSE at[k - 1] + 1, at[k] - 1)]
            IN  /\ Len(LICENSE_LINES) = 13
                /\ Len(at) >= 14
                /\ \A k \in 1..13 :
                    /\ line[k] = IF LICENSE_LINES[k] = <<>> THEN marker
                                 ELSE marker \o <<" ">> \o LICENSE_LINES[k]
                    /\ line[k] # <<>>
                    /\ line[k][Len(line[k])] \notin Whitespace
                /\ line[14] = <<>>

\* C4's case: a .tsx file got its header.
C4_Witness ==
    \E i \in Calls :
        /\ calls[i].result = "written"
        /\ calls[i].ext = <<".", "t", "s", "x">>
        /\ calls[i].before # <<>>

\* C5: on a readable file with a supported extension, add_header does not
\* open the file for writing if and only if the marker occurs on one of the
\* file's first 15 lines.
C5_CheckWindow ==
    \A i \in Calls :
        (calls[i].ext \in Supported /\ DidRead(calls[i])) =>
            (~OpenedForWrite(calls[i]) <=> MarkerWithin(calls[i].before, CheckWindow))

\* C5's case: a file of 15 lines ended by a lone CR with the marker on line
\* 16 got a header.
C5_Witness ==
    \E i \in Calls :
        /\ calls[i].result = "written"
        /\ LF \notin Range(calls[i].before)
        /\ \E j \in 1..Len(calls[i].before) :
            MarkerAt(calls[i].before, j) /\ LineOf(calls[i].before, j) = CheckWindow + 1

-----------------------------------------------------------------------------
(* Properties of the extension lookup, checked under SpecNames.            *)

\* C3: an invocation on a name whose extension (from its final "." on) is
\* not a key of the table opens nothing, leaves the file system as it was
\* and returns: nothing is raised, whether or not the file exists.
C3_UnsupportedNoOp ==
    \A i \in Calls :
        FinalDotExt(calls[i].path) \notin Supported =>
            /\ calls[i].result = "unsupported"
            /\ calls[i].opened = <<>>
            /\ calls[i].after = calls[i].before
            /\ fs = fs0
            /\ exitCode # <<1>>

\* C3's case: the existing file c.PY was skipped.
C3_Witness ==
    \E i \in Calls :
        /\ calls[i].path = <<"c", ".", "P", "Y">>
        /\ fs0[calls[i].path].mode = "ok"
        /\ calls[i].result = "unsupported"

\* C9 as stated: the extension looked up is the name from its final "." to
\* its end, for every name.
C9_Original == \A i \in Calls : calls[i].ext = FinalDotExt(calls[i].path)

\* C9 amended: the extension looked up is the name from its final "." to its
\* end when that "." is neither the first nor the last character of the
\* name, and is empty otherwise; the file is processed only if that
\* extension is a key of the table.
C9_ExtensionLookup ==
    \A i \in Calls :
        /\ calls[i].ext = InnerDotExt(calls[i].path)
        /\ (calls[i].result = "unsupported") <=> (InnerDotExt(calls[i].path) \notin Supported)

\* C9's case: the existing file whose whole name is ".py" was looked up
\* under the empty extension and skipped.
C9_Witness ==
    \E i \in Calls :
        /\ calls[i].path = <<".", "p", "y">>
        /\ fs0[calls[i].path].mode = "ok"
        /\ calls[i].ext = <<>>
        /\ calls[i].result = "unsupported"

-----------------------------------------------------------------------------
(* Properties of the run, checked under Spec.                              *)

\* The arguments at positions 1..i.
ArgsUpTo(i) == {argv[j] : j \in 1..i}

\* The last invocation before position i on path p (p in ArgsUpTo(i - 1)).
LastCallBefore(i, p) ==
    CHOOSE j \in 1..(i - 1) :
        calls[j].path = p /\ \A k \in (j + 1)..(i - 1) : calls[k].path # p

\* C6: when the invocation at position i raises, the process has exited with
\* a non-zero status, no later invocation was made, no file named only after
\* position i was opened or changed, and every other file named before
\* position i holds what its last invocation left.
C6_AbortOnFailure ==
    \A i \in Calls :
        calls[i].result = "raised" =>
            /\ status = "exited"
            /\ exitCode = <<1>>
            /\ calls[i].index = i
            /\ Len(calls) = i
            /\ \A p \in DOMAIN fs : p \notin ArgsUpTo(i) => fs[p] = fs0[p]
            /\ \A p \in ArgsUpTo(i - 1) :
                   p # argv[i] => fs[p].content = calls[LastCallBefore(i, p)].after

\* C6's case: the second of three arguments raised, and the third, an
\* unlicensed file of supported extension that an invocation would have
\* written, is as it was.
C6_Witness ==
    /\ Len(argv) = 3
    /\ Len(calls) = 2
    /\ calls[1].result # "raised"
    /\ calls[2].result = "raised"
    /\ argv[3] \notin ArgsUpTo(2)
    /\ InnerDotExt(argv[3]) \in Supported
    /\ fs0[argv[3]] = File("ok", <<"x", LF>>)
    /\ fs[argv[3]] = fs0[argv[3]]
    /\ status = "exited"

\* No such file, or no permission to read it.
Unreadable(p) == fs0[p].mode \in {"missing", "noread"}

\* C7 as stated: once the run has reached an argument naming a file that
\* does not exist or cannot be read, that invocation has raised and the run
\* has ended there with a non-zero status.
C7_Original ==
    \A i \in Calls :
        Unreadable(argv[i]) =>
            /\ calls[i].result = "raised"
            /\ status = "exited"
            /\ exitCode = <<1>>
            /\ Len(calls) = i

\* C7 amended: once the run has reached an argument with a supported
\* extension naming a file that does not exist or cannot be read, that
\* invocation has raised and the run has ended there with a non-zero status,
\* the remaining arguments unprocessed; an argument with an unsupported
\* extension is skipped without the file being opened, missing or not.
C7_UnreadableAborts ==
    \A i \in Calls :
        Unreadable(argv[i]) =>
            IF InnerDotExt(argv[i]) \in Supported
            THEN /\ calls[i].result = "raised"
                 /\ status = "exited"
                 /\ exitCode = <<1>>
                 /\ Len(calls) = i
            ELSE /\ calls[i].result = "unsupported"
                 /\ calls[i].opened = <<>>

\* C7's case: the missing second argument of three, of supported extension,
\* ended the run.
C7_Witness ==
    /\ Len(argv) = 3
    /\ fs0[argv[2]].mode = "missing"
    /\ InnerDotExt(argv[2]) \in Supported
    /\ Len(calls) = 2
    /\ calls[1].result # "raised"
    /\ calls[2].result = "raised"
    /\ status = "exited"

\* No invocation so far raised.
NoFailure == \A i \in Calls : calls[i].result # "raised"

\* C8: as long as no invocation raised, the i-th invocation was made on the
\* i-th argument, the loop is still going through the arguments or is at their
\* end (so its next step is the next invocation or the exit), and a process
\* that exited did so with status 0 after one invocation per argument.
C8_NormalCompletion ==
    NoFailure =>
        /\ \A i \in Calls : calls[i].index = i /\ calls[i].path = argv[i]
        /\ Len(calls) <= Len(argv)
        /\ status = "running" => (pc = Len(calls) + 1 /\ pc <= Len(argv) + 1)
        /\ status = "exited" => (exitCode = <<0>> /\ Len(calls) = Len(argv))

\* C8's case: a run of three arguments that skipped an unsupported file and
\* a licensed one, then wrote a header, and exited with 0.
C8_Witness ==
    /\ Len(argv) = 3
    /\ Len(calls) = 3
    /\ calls[1].result = "unsupported"
    /\ calls[2].result = "licensed"
    /\ calls[3].result = "written"
    /\ status = "exited"
    /\ exitCode = <<0>>

=============================================================================
